---- MODULE Spec2Model ----
(***************************************************************************)
(* Transaction planner and executor of pahkat-client-core                  *)
(* (src/src/transaction.rs).                                               *)
(*                                                                         *)
(* PackageTransaction::new is modelled as three steps over the working     *)
(* list new_actions (expansion of one caller action at a time, the         *)
(* contradiction sweep, the status filter); PackageTransaction::process    *)
(* is modelled as the generator of async_stream::stream! behind the        *)
(* stream_cancel valve, one poll of the consumer at a time.                *)
(*                                                                         *)
(* The PackageStore and the dependency resolver are collaborators: what    *)
(* they return is drawn from small sets.                                   *)
(***************************************************************************)
EXTENDS Integers, Sequences, FiniteSets, TLC

\* ------------------------------------------------------------------ bounds

\* Longest caller action list handed to PackageTransaction::new.
MaxActions == 2

\* Most declared (direct) dependency edges in the repository metadata.
MaxEdges == 2

\* Most status_to_i8 conversions kept in the history of the boundary.
MaxCalls == 2

\* ------------------------------------------------------------------ data

\* The largest u8.
MaxU8 == 255

Keys == {"a", "b", "c"}

InstallTarget == {"System", "User"}

PackageActionType == {"Install", "Uninstall"}

PackageStatus == {"NotInstalled", "UpToDate", "RequiresUpdate"}

\* A PackageAction as the caller builds it.
PackageAction == [id : Keys, action : PackageActionType, target : InstallTarget]

\* An entry of the working list: a PackageAction plus two history fields that
\* the program does not hold: by is the index of the caller action during
\* whose iteration the entry was pushed, dep is TRUE when it was pushed by
\* process_install_action (an auto-inserted dependency).
Entry(id, action, target, by, dep) ==
    [id |-> id, action |-> action, target |-> target, by |-> by, dep |-> dep]

\* The PackageAction of an entry.
Untag(e) == [id |-> e.id, action |-> e.action, target |-> e.target]

is_install(x) == x.action = "Install"

is_uninstall(x) == x.action = "Uninstall"

\* A key comparison that never matches.
KeyEqAlwaysFalse(k1, k2) == FALSE

\* x.id == y.id on PackageKey.

KeyEq(k1, k2) == k1 = k2

\* ------------------------------------------------------------ the resolver

\* Dependency graphs: sets of edges <<package, dependency>>.
Edges == {e \in Keys \X Keys : e[1] # e[2]}

Graphs == {g \in SUBSET Edges : Cardinality(g) <= MaxEdges}

RECURSIVE Reach(_, _, _)
Reach(g, S, n) ==
    IF n = 0 THEN S
    ELSE Reach(g, S \cup {e[2] : e \in {x \in g : x[1] \in S}}, n - 1)

\* The transitive dependency closure of package k in graph g.
Closure(g, k) ==
    Reach(g, {e[2] : e \in {x \in g : x[1] = k}}, Cardinality(Keys))

\* The orders in which the resolver may return a closure.
Orders(S) ==
    {s \in [1..Cardinality(S) -> S] : \A i, j \in 1..Cardinality(S) : s[i] = s[j] => i = j}

\* What find_package_dependencies may return for package k: the closure in
\* any order (the order is not required to be topological).
find_package_dependencies(g, k) == Orders(Closure(g, k))

\* ------------------------------------------------------------ the boundary

\* PayloadError and PackageStatusError; CriteriaUnmet carries a message.
Messages == {"", "m"}

StatusOk(status) == [ok |-> TRUE, v |-> status, msg |-> ""]

StatusErr(v, msg) == [ok |-> FALSE, v |-> v, msg |-> msg]

\* Result<PackageStatus, PackageStatusError>.
StatusResults ==
    {StatusOk(st) : st \in PackageStatus}
        \cup {StatusErr(v, "") : v \in {"Payload(NoPackage)", "Payload(NoConcretePackage)",
                                        "Payload(NoPayloadFound)", "WrongPayloadType",
                                        "ParsingVersion"}}
        \cup {StatusErr("Payload(CriteriaUnmet)", m) : m \in Messages}

\* NoPayloadFound given the code of the arm above it.
status_to_i8NoPayloadAsNoPackage(r) ==
    IF r.ok
    THEN CASE r.v = "NotInstalled" -> 0
           [] r.v = "UpToDate" -> 1
           [] r.v = "RequiresUpdate" -> 2
    ELSE CASE r.v \in {"Payload(NoPackage)", "Payload(NoConcretePackage)"} -> -1
           [] r.v = "Payload(NoPayloadFound)" -> -1
           [] r.v = "Payload(CriteriaUnmet)" -> -5
           [] r.v = "WrongPayloadType" -> -3
           [] r.v = "ParsingVersion" -> -4

status_to_i8(r) ==
    IF r.ok
    THEN CASE r.v = "NotInstalled" -> 0
           [] r.v = "UpToDate" -> 1
           [] r.v = "RequiresUpdate" -> 2
    ELSE CASE r.v \in {"Payload(NoPackage)", "Payload(NoConcretePackage)"} -> -1
           [] r.v = "Payload(NoPayloadFound)" -> -2
           [] r.v = "Payload(CriteriaUnmet)" -> -5
           [] r.v = "WrongPayloadType" -> -3
           [] r.v = "ParsingVersion" -> -4

\* A from_u8 whose default arm returns Uninstall instead of panicking.
from_u8DefaultUninstall(x) ==
    CASE x = 0 -> "Install"
      [] x = 1 -> "Uninstall"
      [] OTHER -> "Uninstall"

\* PackageActionType::from_u8; "panic" stands for the abort, which returns
\* no value.
from_u8(x) ==
    CASE x = 0 -> "Install"
      [] x = 1 -> "Uninstall"
      [] OTHER -> "panic"

\* PackageActionType::to_u8.
to_u8(t) ==
    CASE t = "Install" -> 0
      [] t = "Uninstall" -> 1

\* ------------------------------------------------------------- the planner

NoResult == [kind |-> "none", fmt |-> "none", keys |-> {}]

Built == [kind |-> "Ok", fmt |-> "none", keys |-> {}]

\* A PackageTransactionError: its variant, how its payload is formatted
\* (the key string of one action, or a debug-formatted set) and the keys it
\* names.
Err(kind, fmt, keys) == [kind |-> kind, fmt |-> fmt, keys |-> keys]

\* The lookup of a key that never finds it.
HasKeyNever(list, k) == FALSE

\* new_actions.iter().any(|x| x.id == k)
HasKey(list, k) == \E j \in 1..Len(list) : KeyEq(list[j].id, k)

\* The loop of process_install_action from dependency i on: a dependency
\* whose key is in the list already is skipped, whatever that entry's action
\* type; the others are pushed as Install with the caller action's target.
RECURSIVE PushDependencies(_, _, _, _, _)
PushDependencies(list, deps, i, action, by) ==
    IF i > Len(deps) THEN list
    ELSE PushDependencies(
             IF ~HasKey(list, deps[i])
             THEN Append(list, Entry(deps[i], "Install", action.target, by, TRUE))
             ELSE list,
             deps, i + 1, action, by)

\* The dependencies pushed with the System target instead of the caller
\* action's target.
process_install_actionSystemTarget(list, deps, action, by) ==
    PushDependencies(list, deps, 1, [action EXCEPT !.target = "System"], by)

process_install_action(list, deps, action, by) ==
    PushDependencies(list, deps, 1, action, by)

\* new_actions.iter().find(|x| x.id == action.id): the index of the first
\* entry with the action's key, 0 when there is none.
FindAction(list, action) ==
    IF HasKey(list, action.id)
    THEN CHOOSE j \in 1..Len(list) :
             /\ KeyEq(list[j].id, action.id)
             /\ \A h \in 1..(j - 1) : ~KeyEq(list[h].id, action.id)
    ELSE 0

\* The caller action pushed without looking its key up in the working list.
PushCallerActionNoLookup(list, action, by) ==
    [contradiction |-> FALSE,
     list |-> Append(list, Entry(action.id, action.action, action.target, by, FALSE))]

\* A found entry of the other action type is not reported: the caller
\* action is dropped like a duplicate.
PushCallerActionNoCheck(list, action, by) ==
    LET j == FindAction(list, action)
    IN  IF j # 0
        THEN [contradiction |-> FALSE, list |-> list]
        ELSE [contradiction |-> FALSE,
              list |-> Append(list, Entry(action.id, action.action, action.target, by, FALSE))]

\* The caller action inserted at the front of the working list.
PushCallerActionFront(list, action, by) ==
    LET j == FindAction(list, action)
    IN  IF j # 0
        THEN IF list[j].action # action.action
             THEN [contradiction |-> TRUE, list |-> list]
             ELSE [contradiction |-> FALSE, list |-> list]
        ELSE [contradiction |-> FALSE,
              list |-> <<Entry(action.id, action.action, action.target, by, FALSE)>> \o list]

\* The end of one iteration of the loop of new: a found entry of the other
\* action type is a contradiction, a found entry of the same type drops the
\* caller action, and otherwise the caller action is pushed.
PushCallerAction(list, action, by) ==
    LET j == FindAction(list, action)
    IN  IF j # 0
        THEN IF list[j].action # action.action
             THEN [contradiction |-> TRUE, list |-> list]
             ELSE [contradiction |-> FALSE, list |-> list]
        ELSE [contradiction |-> FALSE,
              list |-> Append(list, Entry(action.id, action.action, action.target, by, FALSE))]

\* The two HashSets of the sweep and their intersection.
Installs(list) == {list[j].id : j \in {h \in 1..Len(list) : is_install(list[h])}}

Uninstalls(list) == {list[j].id : j \in {h \in 1..Len(list) : ~is_install(list[h])}}

Contradictions(list) ==
    {k \in Installs(list) : \E u \in Uninstalls(list) : KeyEq(k, u)}

\* An Uninstall kept only when the package is up to date.
IsValidUninstallUpToDateOnly(action, status) ==
    IF is_install(action)
    THEN status # "UpToDate"
    ELSE status = "UpToDate"

\* is_valid of the filter.
IsValid(action, status) ==
    IF is_install(action)
    THEN status # "UpToDate"
    ELSE status = "UpToDate" \/ status = "RequiresUpdate"

\* The try_fold of the filter over entries i.. of the list, given the status
\* the store returned for each entry.
RECURSIVE Fold(_, _, _, _)
Fold(out, list, st, i) ==
    IF i > Len(list) THEN out
    ELSE Fold(IF IsValid(list[i], st[i]) THEN Append(out, list[i]) ELSE out,
              list, st, i + 1)

FilterActions(list, st) == Fold(<<>>, list, st, 1)

\* ------------------------------------------------------------------ state

VARIABLES
    pc,             \* "expand", "filter", "built", "failed" (new), "stream" (process)
    actions,        \* the caller's action list, the argument of new
    declared,       \* the declared dependency edges the resolver closes over
    idx,            \* how many caller actions the loop of new has consumed
    new_actions,    \* the working list of new
    statuses,       \* history: the statuses store.status returned to the filter
    txn,            \* self.actions of the built PackageTransaction (tagged entries)
    result,         \* what new returned
    stream_actions, \* the stream's clone of the plan
    gen,            \* where the generator of stream! is suspended
    cur,            \* the plan index of the action the generator is at
    cancelled,      \* the Trigger was signalled or dropped
    ended,          \* the stream returned None to the consumer
    repolled,       \* the consumer polled again after the stream ended
    log,            \* history: events delivered, store calls and returns, the cancel
    codes,          \* history: the status_to_i8 conversions made at the boundary
    byte_call       \* the conversion made between PackageActionType and u8

planner_vars == <<actions, declared, idx, new_actions, statuses, txn, result>>

stream_vars == <<stream_actions, gen, cur, cancelled, ended, repolled, log>>

ffi_vars == <<codes, byte_call>>

vars == <<pc, actions, declared, idx, new_actions, statuses, txn, result,
          stream_actions, gen, cur, cancelled, ended, repolled, log,
          codes, byte_call>>

\* No byte conversion made yet.
NoCall == [fn |-> "none", ty |-> "-", byte |-> 0, back |-> "-"]

\* The caller lists of at most MaxActions actions.
CallerLists == UNION {[1..n -> PackageAction] : n \in 0..MaxActions}

Init ==
    /\ pc = "expand"
    /\ actions \in CallerLists
    /\ declared \in Graphs
    /\ idx = 0
    /\ new_actions = <<>>
    /\ statuses = <<>>
    /\ txn = <<>>
    /\ result = NoResult
    /\ stream_actions = <<>>
    /\ gen = "start"
    /\ cur = 0
    /\ cancelled = FALSE
    /\ ended = FALSE
    /\ repolled = FALSE
    /\ log = <<>>
    /\ codes = <<>>
    /\ byte_call = NoCall

\* An error that is recorded but not returned: the transaction is built
\* all the same.
FailButBuilt(e) ==
    /\ pc' = "built"
    /\ result' = e
    /\ UNCHANGED <<actions, declared, statuses, txn>>

\* new returns an error: no transaction is constructed.
Fail(e) ==
    /\ pc' = "failed"
    /\ result' = e
    /\ UNCHANGED <<actions, declared, statuses, txn>>

\* An iteration that resolves and pushes the dependencies of an Install
\* before it looks the package up.
ExpandResolveFirst ==
    /\ pc = "expand"
    /\ idx < Len(actions)
    /\ LET action == actions[idx + 1]
       IN  \E found \in BOOLEAN, resolved \in BOOLEAN :
           \E deps \in find_package_dependencies(declared, action.id) :
               IF is_install(action) /\ ~resolved
               THEN /\ Fail(Err("Deps", "dep", {action.id}))
                    /\ UNCHANGED <<idx, new_actions>>
               ELSE LET expanded == IF is_install(action)
                                    THEN process_install_action(new_actions, deps, action, idx + 1)
                                    ELSE new_actions
                        pushed == PushCallerAction(expanded, action, idx + 1)
                    IN  IF ~found
                        THEN /\ Fail(Err("NoPackage", "key", {action.id}))
                             /\ new_actions' = expanded
                             /\ UNCHANGED idx
                        ELSE IF pushed.contradiction
                        THEN /\ Fail(Err("ActionContradiction", "key", {action.id}))
                             /\ new_actions' = expanded
                             /\ UNCHANGED idx
                        ELSE /\ new_actions' = pushed.list
                             /\ idx' = idx + 1
                             /\ UNCHANGED <<pc, actions, declared, statuses, txn, result>>
    /\ UNCHANGED stream_vars
    /\ UNCHANGED ffi_vars

\* One iteration of the loop "for action in actions.into_iter()" of new:
\* find_package_by_key, process_install_action for an Install, then the
\* lookup of the action's key in the working list.
Expand ==
    /\ pc = "expand"
    /\ idx < Len(actions)
    /\ LET action == actions[idx + 1]
       IN  \E found \in BOOLEAN, resolved \in BOOLEAN :
           \E deps \in find_package_dependencies(declared, action.id) :
               IF ~found
               THEN /\ Fail(Err("NoPackage", "key", {action.id}))
                    /\ UNCHANGED <<idx, new_actions>>
               ELSE IF is_install(action) /\ ~resolved
               THEN /\ Fail(Err("Deps", "dep", {action.id}))
                    /\ UNCHANGED <<idx, new_actions>>
               ELSE LET expanded == IF is_install(action)
                                    THEN process_install_action(new_actions, deps, action, idx + 1)
                                    ELSE new_actions
                        pushed == PushCallerAction(expanded, action, idx + 1)
                    IN  IF pushed.contradiction
                        THEN /\ Fail(Err("ActionContradiction", "key", {action.id}))
                             /\ new_actions' = expanded
                             /\ UNCHANGED idx
                        ELSE /\ new_actions' = pushed.list
                             /\ idx' = idx + 1
                             /\ UNCHANGED <<pc, actions, declared, statuses, txn, result>>
    /\ UNCHANGED stream_vars
    /\ UNCHANGED ffi_vars

\* The contradiction sweep over the whole working list.
Sweep ==
    /\ pc = "expand"
    /\ idx = Len(actions)
    /\ IF Contradictions(new_actions) # {}
       THEN Fail(Err("ActionContradiction", "set", Contradictions(new_actions)))
       ELSE /\ pc' = "filter"
            /\ UNCHANGED <<actions, declared, statuses, txn, result>>
    /\ UNCHANGED <<idx, new_actions>>
    /\ UNCHANGED stream_vars
    /\ UNCHANGED ffi_vars

\* The status filter and the construction of the transaction. store.status is
\* asked for entry after entry; k is the first entry it fails for (0: none).
Filter ==
    /\ pc = "filter"
    /\ \E k \in 0..Len(new_actions) :
       \E st \in [1..(IF k = 0 THEN Len(new_actions) ELSE k - 1) -> PackageStatus] :
           /\ statuses' = st
           /\ IF k # 0
              THEN /\ pc' = "failed"
                   /\ result' = Err("InvalidStatus", "status", {new_actions[k].id})
                   /\ UNCHANGED txn
              ELSE /\ pc' = "built"
                   /\ result' = Built
                   /\ txn' = FilterActions(new_actions, st)
    /\ UNCHANGED <<actions, declared, idx, new_actions>>
    /\ UNCHANGED stream_vars
    /\ UNCHANGED ffi_vars

\* ------------------------------------------------------------ the executor

\* One entry of the history: t is "event" (an event returned to the consumer),
\* "call" (store.install or store.uninstall entered), "ret" (it returned),
\* "cancel" or "end"; n is the plan index the entry is about (0: none); e is the
\* TransactionError variant of an Error event.
Rec(t, name, id, target, n, e) ==
    [t |-> t, name |-> name, id |-> id, target |-> target, n |-> n, e |-> e]

StartEvent(a, n) ==
    Rec("event", IF a.action = "Install" THEN "Installing" ELSE "Uninstalling",
        a.id, "-", n, "-")

\* The Uninstall arm reporting TransactionError::Install.
ErrorEventAlwaysInstall(a, n) == Rec("event", "Error", a.id, "-", n, "Install")

ErrorEvent(a, n) == Rec("event", "Error", a.id, "-", n, a.action)

CompleteEvent == Rec("event", "Complete", "-", "-", 0, "-")

\* The store called with the System target instead of the entry's target.
StoreCallSystemTarget(a, n) ==
    Rec("call", IF a.action = "Install" THEN "install" ELSE "uninstall",
        a.id, "System", n, "-")

StoreCall(a, n) ==
    Rec("call", IF a.action = "Install" THEN "install" ELSE "uninstall",
        a.id, a.target, n, "-")

StoreRet(ok, n) == Rec("ret", IF ok THEN "Ok" ELSE "Err", "-", "-", n, "-")

CancelRec == Rec("cancel", "-", "-", "-", 0, "-")

\* The stream returned None.
EndRec == Rec("end", "-", "-", "-", 0, "-")

\* process(): the valve and the stream are created over a clone of the plan;
\* nothing runs until the consumer polls. The locals of new are gone by now,
\* and the planning history is not carried into the stream's states.
Process ==
    /\ pc = "built"
    /\ pc' = "stream"
    /\ stream_actions' = [i \in 1..Len(txn) |-> Untag(txn[i])]
    /\ actions' = <<>>
    /\ declared' = {}
    /\ idx' = 0
    /\ new_actions' = <<>>
    /\ statuses' = <<>>
    /\ txn' = <<>>
    /\ UNCHANGED <<result, gen, cur, cancelled, ended, repolled, log>>
    /\ UNCHANGED ffi_vars

\* A generator whose loop stops one action short.
YieldNextOffByOne(n, sofar) ==
    IF n < Len(stream_actions)
    THEN /\ log' = Append(sofar, StartEvent(stream_actions[n], n))
         /\ gen' = "yield_start"
         /\ cur' = n
    ELSE /\ log' = Append(sofar, CompleteEvent)
         /\ gen' = "yield_complete"
         /\ cur' = cur

\* The generator runs from the top of the loop for plan index n to its next
\* yield: the start event of action n, or Complete after the last action.
YieldNext(n, sofar) ==
    IF n <= Len(stream_actions)
    THEN /\ log' = Append(sofar, StartEvent(stream_actions[n], n))
         /\ gen' = "yield_start"
         /\ cur' = n
    ELSE /\ log' = Append(sofar, CompleteEvent)
         /\ gen' = "yield_complete"
         /\ cur' = cur

\* A generator without the "return" after "yield Error(..)": it goes on with
\* the next action.
AfterErrorNoReturn(sofar) ==
    /\ YieldNext(cur + 1, sofar)
    /\ ended' = ended

\* After "yield Error(..)" the generator returns.
AfterError(sofar) ==
    /\ log' = Append(sofar, EndRec)
    /\ gen' = "done"
    /\ cur' = cur
    /\ ended' = TRUE

\* The consumer polls the valved stream. The valve is looked at first: when
\* the trigger was signalled or dropped the stream ends and the generator is
\* not polled. Otherwise the generator resumes where it was suspended: from
\* the start of the loop, into the store call after a start event (the call
\* blocks inside this poll), or to its end after Error or Complete.
Poll ==
    /\ pc = "stream"
    /\ ~ended
    /\ gen # "in_store"
    /\ IF cancelled
       THEN /\ ended' = TRUE
            /\ log' = Append(log, EndRec)
            /\ UNCHANGED <<gen, cur>>
       ELSE CASE gen = "start" ->
                     /\ YieldNext(1, log)
                     /\ UNCHANGED ended
              [] gen = "yield_start" ->
                     /\ log' = Append(log, StoreCall(stream_actions[cur], cur))
                     /\ gen' = "in_store"
                     /\ UNCHANGED <<cur, ended>>
              [] gen = "yield_error" -> AfterError(log)
              [] gen = "yield_complete" ->
                     /\ gen' = "done"
                     /\ ended' = TRUE
                     /\ log' = Append(log, EndRec)
                     /\ UNCHANGED cur
    /\ UNCHANGED <<pc, stream_actions, cancelled, repolled>>
    /\ UNCHANGED planner_vars
    /\ UNCHANGED ffi_vars

\* store.install / store.uninstall returns inside the poll that called it, and
\* the generator runs on to its next yield, which that poll returns: the next
\* action's start event or Complete after success, Error after a failure.
StoreReturn ==
    /\ pc = "stream"
    /\ gen = "in_store"
    /\ \E ok \in BOOLEAN :
        IF ok
        THEN YieldNext(cur + 1, Append(log, StoreRet(TRUE, cur)))
        ELSE /\ log' = Append(Append(log, StoreRet(FALSE, cur)),
                              ErrorEvent(stream_actions[cur], cur))
             /\ gen' = "yield_error"
             /\ cur' = cur
    /\ UNCHANGED <<pc, stream_actions, cancelled, ended, repolled>>
    /\ UNCHANGED planner_vars
    /\ UNCHANGED ffi_vars

\* The holder of the Trigger signals it (or drops it), at any moment of the
\* stream's life, also while a poll is blocked in the store.
Cancel ==
    /\ pc = "stream"
    /\ ~cancelled
    /\ ~ended
    /\ cancelled' = TRUE
    /\ log' = Append(log, CancelRec)
    /\ UNCHANGED <<pc, stream_actions, gen, cur, ended, repolled>>
    /\ UNCHANGED planner_vars
    /\ UNCHANGED ffi_vars

\* The consumer polls a stream that has ended: it gets None again.
PollEnded ==
    /\ pc = "stream"
    /\ ended
    /\ repolled' = TRUE
    /\ UNCHANGED <<pc, stream_actions, gen, cur, cancelled, ended, log>>
    /\ UNCHANGED planner_vars
    /\ UNCHANGED ffi_vars

Next ==
    \/ Expand
    \/ Sweep
    \/ Filter
    \/ Process
    \/ Poll
    \/ StoreReturn
    \/ Cancel
    \/ PollEnded

Spec == Init /\ [][Next]_vars

\* The consumer keeps polling the stream and every store call returns.
FairSpec == Spec /\ WF_vars(Poll) /\ WF_vars(StoreReturn)

\* ------------------------------------------- the boundary as a state machine

\* The boundary functions are pure; their callers apply them to any status
\* result and to any byte, with no transaction under way.
InitFfi ==
    /\ pc = "ffi"
    /\ actions = <<>>
    /\ declared = {}
    /\ idx = 0
    /\ new_actions = <<>>
    /\ statuses = <<>>
    /\ txn = <<>>
    /\ result = NoResult
    /\ stream_actions = <<>>
    /\ gen = "start"
    /\ cur = 0
    /\ cancelled = FALSE
    /\ ended = FALSE
    /\ repolled = FALSE
    /\ log = <<>>
    /\ codes = <<>>
    /\ byte_call = NoCall

\* A caller converts a status result to its code.
StatusToI8 ==
    /\ Len(codes) < MaxCalls
    /\ \E r \in StatusResults :
           codes' = Append(codes, [in |-> r, out |-> status_to_i8(r)])
    /\ UNCHANGED byte_call
    /\ UNCHANGED <<pc, planner_vars, stream_vars>>

\* A caller decodes a byte.
FromU8 ==
    /\ byte_call = NoCall
    /\ \E x \in 0..MaxU8 :
           byte_call' = [fn |-> "from_u8", ty |-> from_u8(x), byte |-> x, back |-> "-"]
    /\ UNCHANGED codes
    /\ UNCHANGED <<pc, planner_vars, stream_vars>>

\* A caller encodes an action type and decodes the byte again.
RoundTrip ==
    /\ byte_call = NoCall
    /\ \E t \in PackageActionType :
           byte_call' = [fn |-> "round_trip", ty |-> t, byte |-> to_u8(t),
                         back |-> from_u8(to_u8(t))]
    /\ UNCHANGED codes
    /\ UNCHANGED <<pc, planner_vars, stream_vars>>

NextFfi ==
    \/ StatusToI8
    \/ FromU8
    \/ RoundTrip

SpecFfi == InitFfi /\ [][NextFfi]_vars

\* ----------------------------------------------------- claims, the planner

\* new has returned, with a transaction or with an error.
Returned == pc \in {"built", "failed"}

\* C1: a caller list with an Install of a and an Uninstall of b, b in the
\* dependency closure of a, makes new fail with ActionContradiction and build
\* no plan, whichever of the two comes first (every key known, resolution
\* succeeding).
C1_TransitiveContradictionEitherOrder ==
    ( /\ Returned
      /\ result.kind \notin {"NoPackage", "Deps"}
      /\ \E i, j \in 1..Len(actions) :
            /\ is_install(actions[i])
            /\ is_uninstall(actions[j])
            /\ actions[j].id \in Closure(declared, actions[i].id) )
    => (result.kind = "ActionContradiction" /\ txn = <<>>)

\* The keys with an Install entry / an Uninstall entry in a plan.
InstallKeys(plan) == {plan[p].id : p \in {q \in 1..Len(plan) : plan[q].action = "Install"}}

UninstallKeys(plan) == {plan[p].id : p \in {q \in 1..Len(plan) : plan[q].action = "Uninstall"}}

\* C2 (P2): in every plan new returns, no package key has both an Install
\* entry and an Uninstall entry.
C2_ContradictionFree ==
    pc = "built" => InstallKeys(txn) \cap UninstallKeys(txn) = {}

\* A built plan that uninstalls one package and installs another together
\* with an auto-inserted dependency.
C2_Witness ==
    /\ pc = "built"
    /\ InstallKeys(txn) # {}
    /\ UninstallKeys(txn) # {}
    /\ \E p \in 1..Len(txn) : txn[p].dep

\* The status the filter got for the working-list entry of key d was UpToDate.
WasUpToDate(d) ==
    \E j \in 1..Len(new_actions) :
        /\ j <= Len(statuses)
        /\ new_actions[j].id = d
        /\ statuses[j] = "UpToDate"

\* No package is in its own dependency closure.
Acyclic(g) == \A k \in Keys : k \notin Closure(g, k)

\* C3 (P1): for every Install entry of a returned plan (the dependency graph
\* being acyclic), every package of the transitive dependency closure of its
\* package is an entry at an earlier index of the plan, or was UpToDate when
\* the plan was built.
C3_Completeness ==
    (pc = "built" /\ Acyclic(declared)) =>
        \A p \in 1..Len(txn) :
            txn[p].action = "Install" =>
                \A d \in Closure(declared, txn[p].id) :
                    \/ \E q \in 1..(p - 1) : txn[q].id = d
                    \/ WasUpToDate(d)

\* C9 (P4), as claimed: plan entries that are caller-supplied actions are in
\* the plan in the order of the caller's list, also when a requested package
\* is a dependency of another requested package: two plan entries that both
\* equal caller actions have occurrences in the caller's list in that order.
C9_CallerOrderPreserved ==
    pc = "built" =>
        \A p, q \in 1..Len(txn) :
            ( /\ p < q
              /\ \E i \in 1..Len(actions) : actions[i] = Untag(txn[p])
              /\ \E j \in 1..Len(actions) : actions[j] = Untag(txn[q]) )
            => \E i, j \in 1..Len(actions) :
                   /\ i < j
                   /\ actions[i] = Untag(txn[p])
                   /\ actions[j] = Untag(txn[q])

\* C9 (P4), amended: the plan entries that the caller actions themselves
\* pushed (not the entries pushed as dependencies) are those caller actions,
\* in the order of the caller's list.
C9_PushedCallerOrderPreserved ==
    pc = "built" =>
        /\ \A p \in 1..Len(txn) :
               ~txn[p].dep =>
                   /\ txn[p].by \in 1..Len(actions)
                   /\ actions[txn[p].by] = Untag(txn[p])
        /\ \A p, q \in 1..Len(txn) :
               (p < q /\ ~txn[p].dep /\ ~txn[q].dep) => txn[p].by < txn[q].by

\* A plan with two entries pushed by caller actions and an auto-inserted
\* dependency.
C9_Witness ==
    /\ pc = "built"
    /\ \E p, q, r \in 1..Len(txn) :
           /\ p < q
           /\ ~txn[p].dep
           /\ ~txn[q].dep
           /\ txn[r].dep

\* The necessity predicate of the planner's contract.
Necessary(e, status) ==
    \/ e.action = "Install" /\ status \in {"NotInstalled", "RequiresUpdate"}
    \/ e.action = "Uninstall" /\ status \in {"UpToDate", "RequiresUpdate"}

\* The indices of the working-list entries that are necessary.
NecessaryIndices ==
    {j \in 1..Len(new_actions) : Necessary(new_actions[j], statuses[j])}

\* C10 (P3): a returned plan is the working list filtered, in order, by the
\* necessity predicate on the status of each entry: entry p of the plan is
\* the p-th necessary entry of the working list, and there are no others.
C10_Necessity ==
    pc = "built" =>
        /\ Len(statuses) = Len(new_actions)
        /\ Len(txn) = Cardinality(NecessaryIndices)
        /\ \A p \in 1..Len(txn) :
               \E j \in NecessaryIndices :
                   /\ Cardinality({h \in NecessaryIndices : h <= j}) = p
                   /\ txn[p] = new_actions[j]

\* A plan that keeps an Uninstall of a package that requires an update and
\* an Install, and drops an entry of the working list.
C10_Witness ==
    /\ pc = "built"
    /\ Len(txn) < Len(new_actions)
    /\ \E p \in 1..Len(txn) : txn[p].action = "Install"
    /\ \E j \in 1..Len(new_actions) :
           /\ new_actions[j].action = "Uninstall"
           /\ statuses[j] = "RequiresUpdate"
           /\ \E p \in 1..Len(txn) : txn[p] = new_actions[j]

\* The variants of PackageTransactionError.
ErrorKinds == {"NoPackage", "Deps", "ActionContradiction", "InvalidStatus"}

\* C11: new invokes no store operation and emits nothing, whether it succeeds
\* or fails: the history is empty until a built transaction is processed; and
\* when new fails there is no plan and no stream, so that the history stays
\* empty.
C11_PlanningHasNoSideEffects ==
    /\ pc \in {"expand", "filter", "built", "failed"} =>
           (log = <<>> /\ stream_actions = <<>> /\ gen = "start")
    /\ pc = "failed" => (result.kind \in ErrorKinds /\ txn = <<>>)
    /\ result.kind \in ErrorKinds => (pc = "failed" /\ log = <<>>)
    /\ log # <<>> => (pc = "stream" /\ result = Built)

\* new failed on a status query after expanding two entries.
C11_Witness ==
    /\ pc = "failed"
    /\ result.kind = "InvalidStatus"
    /\ Len(new_actions) >= 2
    /\ Len(statuses) >= 1

\* The caller list requests some package key with Install and with Uninstall.
DirectContradiction ==
    \E i, j \in 1..Len(actions) :
        /\ actions[i].id = actions[j].id
        /\ actions[i].action = "Install"
        /\ actions[j].action = "Uninstall"

\* C12: a caller list that requests the same key with Install and with
\* Uninstall (keys known, dependencies resolvable) makes new return
\* ActionContradiction whatever store.status would answer; store.status is
\* not asked before the contradiction detection has finished.
C12_ContradictionBeforeStatus ==
    /\ (Returned /\ DirectContradiction /\ result.kind \notin {"NoPackage", "Deps"})
           => (result.kind = "ActionContradiction" /\ statuses = <<>> /\ txn = <<>>)
    /\ pc = "expand" => statuses = <<>>
    /\ result.kind = "ActionContradiction" => statuses = <<>>

\* new failed with ActionContradiction on a list that uninstalls a package
\* and then installs it.
C12_Witness ==
    /\ pc = "failed"
    /\ result.kind = "ActionContradiction"
    /\ Len(actions) = 2
    /\ actions[1].action = "Uninstall"
    /\ actions[2].action = "Install"
    /\ actions[1].id = actions[2].id

\* Caller action j was consumed by the loop: its key is in the working list
\* with its action type.
Consumed(j) ==
    \E h \in 1..Len(new_actions) :
        /\ new_actions[h].id = actions[j].id
        /\ new_actions[h].action = actions[j].action

\* C13: new returns the error of the first failing step, the caller actions
\* before it having been consumed: NoPackage(key) for the caller action whose
\* lookup fails, before its dependencies are pushed; Deps for an Install whose
\* resolution fails; InvalidStatus for the first entry of the expanded list
\* whose status query fails, only after the whole input was expanded with no
\* contradiction; and no plan is returned.
C13_ErrorClassification ==
    pc = "failed" =>
        /\ txn = <<>>
        /\ \A j \in 1..idx : Consumed(j)
        /\ result.kind = "NoPackage" =>
               /\ idx < Len(actions)
               /\ result.fmt = "key"
               /\ result.keys = {actions[idx + 1].id}
               /\ \A h \in 1..Len(new_actions) : new_actions[h].by <= idx
        /\ result.kind = "Deps" =>
               /\ idx < Len(actions)
               /\ actions[idx + 1].action = "Install"
               /\ result.keys = {actions[idx + 1].id}
               /\ \A h \in 1..Len(new_actions) : new_actions[h].by <= idx
        /\ result.kind = "ActionContradiction" =>
               /\ idx < Len(actions)
               /\ result.keys = {actions[idx + 1].id}
               /\ \E h \in 1..Len(new_actions) :
                      /\ new_actions[h].id = actions[idx + 1].id
                      /\ new_actions[h].action # actions[idx + 1].action
        /\ result.kind = "InvalidStatus" =>
               /\ idx = Len(actions)
               /\ InstallKeys(new_actions) \cap UninstallKeys(new_actions) = {}
               /\ Len(statuses) < Len(new_actions)
               /\ result.keys = {new_actions[Len(statuses) + 1].id}

\* new failed with NoPackage on its second caller action, the first one (an
\* Install with a dependency) having been expanded.
C13_Witness ==
    /\ pc = "failed"
    /\ result.kind = "NoPackage"
    /\ idx = 1
    /\ Len(new_actions) = 2

\* C16, as claimed: every dependency entry pushed while a caller Install
\* action was expanded is at a smaller index than the entry of that action's
\* own package, in the working list and in the plan.
PrecedesRequester(list) ==
    \A d, e \in 1..Len(list) :
        ( /\ list[d].dep
          /\ list[d].by \in 1..Len(actions)
          /\ list[e].id = actions[list[d].by].id
          /\ list[d].id # list[e].id )
        => d < e

C16_DependenciesPrecedeRequester ==
    pc \in {"expand", "filter", "built"} =>
        (PrecedesRequester(new_actions) /\ PrecedesRequester(txn))

\* C16, amended: every dependency entry pushed while a caller Install action
\* was expanded is at a smaller index than the entry that this caller action
\* itself pushed, in the working list and in the plan.
PrecedesOwnPush(list) ==
    \A d, e \in 1..Len(list) :
        (list[d].dep /\ ~list[e].dep /\ list[d].by = list[e].by) => d < e

C16_DependenciesPrecedeOwnPush ==
    PrecedesOwnPush(new_actions) /\ PrecedesOwnPush(txn)

\* A plan in which the second caller action pushed a dependency and then
\* itself.
C16_Witness ==
    /\ pc = "built"
    /\ \E d, e \in 1..Len(txn) :
           /\ txn[d].dep
           /\ ~txn[e].dep
           /\ txn[d].by = 2
           /\ txn[e].by = 2

\* No two entries of a list have the same key.
UniqueKeys(list) ==
    \A i, j \in 1..Len(list) : list[i].id = list[j].id => i = j

\* The keys planning is about: those of the caller actions and those in the
\* dependency closures of the Install actions.
Involved ==
    {actions[j].id : j \in 1..Len(actions)}
        \cup UNION {Closure(declared, actions[j].id) :
                        j \in {h \in 1..Len(actions) : actions[h].action = "Install"}}

\* C17: at every point of planning and in every plan no two entries have
\* the same key, and the working list is no longer than the number of keys
\* involved, also for a cyclic dependency graph.
C17_OneEntryPerKey ==
    /\ UniqueKeys(new_actions)
    /\ UniqueKeys(txn)
    /\ UniqueKeys(stream_actions)
    /\ pc # "stream" => Len(new_actions) <= Cardinality(Involved)

\* A plan built over a cyclic graph from a caller list that names one key
\* twice.
C17_Witness ==
    /\ pc = "built"
    /\ ~Acyclic(declared)
    /\ Len(actions) = 2
    /\ actions[1].id = actions[2].id
    /\ Len(new_actions) = 2
    /\ Len(txn) = 2

\* C18: every entry that the caller did not push itself is an Install of a
\* package in the dependency closure of the caller Install action during
\* whose expansion it was pushed, with that action's target; every Uninstall
\* entry is a caller action.
AutoInsertedAreInstalls(list) ==
    \A h \in 1..Len(list) :
        /\ list[h].by \in 1..Len(actions)
        /\ list[h].dep =>
               /\ list[h].action = "Install"
               /\ actions[list[h].by].action = "Install"
               /\ list[h].id \in Closure(declared, actions[list[h].by].id)
               /\ list[h].target = actions[list[h].by].target
        /\ list[h].action = "Uninstall" =>
               /\ ~list[h].dep
               /\ actions[list[h].by] = Untag(list[h])
        /\ actions[list[h].by].action = "Uninstall" =>
               \A g \in 1..Len(list) : list[g].by = list[h].by => g = h

C18_AutoInsertedAreInstalls ==
    pc # "stream" =>
        (AutoInsertedAreInstalls(new_actions) /\ AutoInsertedAreInstalls(txn))

\* A plan with a dependency inserted for the User target and an Uninstall.
C18_Witness ==
    /\ pc = "built"
    /\ \E h \in 1..Len(txn) : txn[h].dep /\ txn[h].target = "User"
    /\ \E h \in 1..Len(txn) : txn[h].action = "Uninstall"

\* The sweep is about to run: the loop of new consumed every caller action.
AtSweep == pc = "expand" /\ idx = Len(actions)

\* The sweep ran and passed.
PastSweep == pc \in {"filter", "built"} \/ (pc = "failed" /\ result.kind = "InvalidStatus")

\* C21: the sweep never fails. When it runs, and in every working list the
\* loop of new produces, no two entries have the same key, so the set of
\* Install keys and the set of Uninstall keys have an empty intersection;
\* every ActionContradiction that new returns is raised inside the loop,
\* before all caller actions were consumed, and carries the key string of
\* the caller action at which the loop stopped, whose key is in the working
\* list with the other action type; it is never the formatted set.
C21_SweepNeverFails ==
    /\ pc # "stream" =>
           /\ UniqueKeys(new_actions)
           /\ Contradictions(new_actions) = {}
           /\ Installs(new_actions) \cap Uninstalls(new_actions) = {}
    /\ result.kind = "ActionContradiction" =>
           /\ pc = "failed"
           /\ result.fmt = "key"
           /\ idx < Len(actions)
           /\ result.keys = {actions[idx + 1].id}
           /\ \E h \in 1..Len(new_actions) :
                  /\ new_actions[h].id = actions[idx + 1].id
                  /\ new_actions[h].action # actions[idx + 1].action
    /\ (pc = "failed" /\ idx = Len(actions)) => result.kind = "InvalidStatus"

\* The sweep ran and passed over a working list that has Install entries, an
\* auto-inserted one among them, and an Uninstall entry.
C21_Witness ==
    /\ PastSweep
    /\ pc = "filter"
    /\ Uninstalls(new_actions) # {}
    /\ \E h \in 1..Len(new_actions) : new_actions[h].dep

\* The sweep is about to run over a working list with both sets non-empty.
C21_WitnessAtSweep ==
    /\ AtSweep
    /\ Installs(new_actions) # {}
    /\ Uninstalls(new_actions) # {}

\* new failed with ActionContradiction at an Uninstall whose key an earlier
\* Install had brought in as a dependency.
C21_WitnessStep1 ==
    /\ pc = "failed"
    /\ result.kind = "ActionContradiction"
    /\ result.fmt = "key"
    /\ actions[idx + 1].action = "Uninstall"
    /\ \E h \in 1..Len(new_actions) :
           new_actions[h].dep /\ new_actions[h].id = actions[idx + 1].id

\* ---------------------------------------------------- claims, the executor

\* The events the consumer got, in order.
Events == SelectSeq(log, LAMBDA r : r.t = "event")

\* The store calls and their returns, in order.
StoreOps == SelectSeq(log, LAMBDA r : r.t \in {"call", "ret"})

IsStart(r) == r.t = "event" /\ r.name \in {"Installing", "Uninstalling"}

IsTerminal(r) == r.t = "event" /\ r.name \in {"Error", "Complete"}

\* C4: once the start event of a plan action was delivered, the store
\* operation of that action is invoked and returns (and a failure is followed
\* by its Error event) before the stream ends, also when the cancel handle is
\* signalled after that start event.
C4_StartedActionRuns ==
    ended =>
        \A p \in 1..Len(log) :
            IsStart(log[p]) =>
                \E q \in (p + 1)..Len(log) :
                    /\ log[q].t = "call"
                    /\ log[q].n = log[p].n
                    /\ \E r \in (q + 1)..Len(log) :
                           /\ log[r].t = "ret"
                           /\ log[r].n = log[p].n
                           /\ log[r].name = "Err" =>
                                  \E x \in (r + 1)..Len(log) :
                                      log[x].name = "Error" /\ log[x].n = log[p].n

\* C5: after the cancel signal the stream emits no start event and no
\* Complete; the only event that may follow it is the Error of the action
\* whose store call was running when the signal came.
C5_NoEventAfterCancel ==
    \A p \in 1..Len(log) :
        log[p].t = "cancel" =>
            \A q \in (p + 1)..Len(log) :
                log[q].t = "event" =>
                    /\ log[q].name = "Error"
                    /\ \E c \in 1..(p - 1) :
                           log[c].t = "call" /\ log[c].n = log[q].n

\* C6 (P5): the events of a stream are start events followed by at most one
\* terminal event (Error or Complete); a stream that ended without being
\* cancelled has exactly one terminal event, its last event; nothing is
\* emitted (and no store call made) after the stream returned None.
C6_EventLinearity ==
    /\ \A p \in 1..(Len(Events) - 1) : IsStart(Events[p])
    /\ (ended /\ ~cancelled) =>
           (Len(Events) >= 1 /\ IsTerminal(Events[Len(Events)]))
    /\ \A p \in 1..Len(log) :
           log[p].t = "end" => \A q \in (p + 1)..Len(log) : log[q].t = "end"
    /\ Cardinality({p \in 1..Len(log) : log[p].t = "end"}) <= 1

\* A stream of two actions that ended on the second action's Error and was
\* polled again afterwards.
C6_Witness ==
    /\ ended
    /\ repolled
    /\ ~cancelled
    /\ Len(Events) = 4
    /\ Events[4].name = "Error"

\* C7: when the store operation of plan action i fails, the next entry of
\* the history is the event Error(id_i, Install) for an install and
\* Error(id_i, Uninstall) for an uninstall, and after it there is no store
\* call, no start event and no Complete.
C7_FailureHalts ==
    \A p \in 1..Len(log) :
        (log[p].t = "ret" /\ log[p].name = "Err") =>
            /\ p < Len(log)
            /\ log[p + 1].t = "event"
            /\ log[p + 1].name = "Error"
            /\ log[p + 1].id = stream_actions[log[p].n].id
            /\ log[p + 1].e = stream_actions[log[p].n].action
            /\ \A q \in (p + 2)..Len(log) : log[q].t \in {"cancel", "end"}
            /\ \A q \in 1..Len(log) : log[q].name # "Complete"
            /\ \A q \in 1..Len(log) : log[q].t = "call" => log[q].n <= log[p].n

\* An uninstall that failed as the second action of a plan, the stream then
\* polled to its end.
C7_Witness ==
    /\ ended
    /\ Len(StoreOps) = 4
    /\ StoreOps[3].name = "uninstall"
    /\ StoreOps[4].name = "Err"

\* The store operations of a run in which every action of the plan was
\* invoked, in plan order, and succeeded.
AllSucceeded ==
    /\ Len(StoreOps) = 2 * Len(stream_actions)
    /\ \A n \in 1..Len(stream_actions) :
           /\ StoreOps[2 * n - 1].t = "call"
           /\ StoreOps[2 * n - 1].n = n
           /\ StoreOps[2 * n - 1].id = stream_actions[n].id
           /\ StoreOps[2 * n - 1].target = stream_actions[n].target
           /\ StoreOps[2 * n - 1].name =
                  (IF stream_actions[n].action = "Install" THEN "install" ELSE "uninstall")
           /\ StoreOps[2 * n].t = "ret"
           /\ StoreOps[2 * n].name = "Ok"

CompleteEmitted == \E p \in 1..Len(log) : log[p].name = "Complete"

C8_WitnessEmpty ==
    /\ CompleteEmitted
    /\ Len(stream_actions) = 0
    /\ ended

\* C19: the store is called only for the entries of the plan, with the
\* entry's key and target, in plan order, once each and one at a time; the
\* call of action i comes after the start event of action i and after the
\* call of action i-1 returned success; no event of action i+1 comes before
\* the call of action i has returned.
C19_StoreCallsFollowEvents ==
    /\ \A k \in 1..Len(StoreOps) :
           IF k % 2 = 1
           THEN /\ StoreOps[k].t = "call"
                /\ StoreOps[k].n = (k + 1) \div 2
                /\ StoreOps[k].n <= Len(stream_actions)
                /\ StoreOps[k].id = stream_actions[StoreOps[k].n].id
                /\ StoreOps[k].target = stream_actions[StoreOps[k].n].target
                /\ StoreOps[k].name =
                       (IF stream_actions[StoreOps[k].n].action = "Install"
                        THEN "install" ELSE "uninstall")
                /\ k > 1 => StoreOps[k - 1].name = "Ok"
           ELSE /\ StoreOps[k].t = "ret"
                /\ StoreOps[k].n = k \div 2
    /\ \A p \in 1..Len(log) :
           log[p].t = "call" =>
               \E q \in 1..(p - 1) :
                   /\ IsStart(log[q])
                   /\ log[q].n = log[p].n
                   /\ log[q].id = log[p].id
    /\ \A p \in 1..Len(log) :
           (log[p].t = "event" /\ log[p].n > 1) =>
               \E q \in 1..(p - 1) :
                   /\ log[q].t = "ret"
                   /\ log[q].name = "Ok"
                   /\ log[q].n = log[p].n - 1

\* Two store calls made, the second an uninstall for the User target.
C19_Witness ==
    /\ Len(StoreOps) = 4
    /\ StoreOps[3].name = "uninstall"
    /\ StoreOps[3].target = "User"

\* The stream has emitted at most one start event per plan action, in plan
\* order, and at most one event more.
BoundedEvents ==
    /\ Len(Events) <= Len(stream_actions) + 1
    /\ \A p, q \in 1..Len(log) :
           (p < q /\ IsStart(log[p]) /\ IsStart(log[q])) => log[p].n < log[q].n
    /\ \A p, q \in 1..Len(log) :
           (p < q /\ log[p].t = "call" /\ log[q].t = "call") => log[p].n < log[q].n

\* C20: when the consumer keeps polling and every store call returns, the
\* stream of a plan of n actions ends, after at most n + 1 events, and no
\* action is visited twice.
C20_StreamIsFinite ==
    /\ []BoundedEvents
    /\ (pc = "stream") ~> ended

\* A stream of two actions that ended after three events.
C20_Witness ==
    /\ ended
    /\ Len(stream_actions) = 2
    /\ Len(Events) = 3

\* ---------------------------------------------------- claims, the boundary

\* The row of the status code table an input belongs to.
Row(r) ==
    IF r.ok THEN r.v
    ELSE IF r.v \in {"Payload(NoPackage)", "Payload(NoConcretePackage)"}
         THEN "no package or no concrete package"
         ELSE r.v

\* The status code table, by row.
TableCode(row) ==
    CASE row = "NotInstalled" -> 0
      [] row = "UpToDate" -> 1
      [] row = "RequiresUpdate" -> 2
      [] row = "no package or no concrete package" -> -1
      [] row = "Payload(NoPayloadFound)" -> -2
      [] row = "WrongPayloadType" -> -3
      [] row = "ParsingVersion" -> -4
      [] row = "Payload(CriteriaUnmet)" -> -5

\* C14 (P6): every conversion gives the code of its row of the table, a
\* success a code >= 0 and an error a code < 0 (within i8), and two
\* conversions of inputs from different rows give different codes.
C14_StatusCodeMapping ==
    /\ \A i \in 1..Len(codes) :
           /\ codes[i].out = TableCode(Row(codes[i].in))
           /\ codes[i].out \in -128..127
           /\ codes[i].in.ok <=> codes[i].out >= 0
    /\ \A i, j \in 1..Len(codes) :
           Row(codes[i].in) # Row(codes[j].in) => codes[i].out # codes[j].out

\* Two conversions from two rows of errors next to each other in the code.
C14_Witness ==
    /\ Len(codes) = 2
    /\ codes[1].in.v = "Payload(NoConcretePackage)"
    /\ codes[2].in.v = "Payload(NoPayloadFound)"

\* C15 (P7): encoding an action type and decoding the byte gives the type
\* back, Install through byte 0 and Uninstall through byte 1; decoding any
\* other byte aborts and returns no value.
C15_ActionTypeRoundTrip ==
    /\ byte_call.fn = "round_trip" =>
           /\ byte_call.back = byte_call.ty
           /\ byte_call.byte = (IF byte_call.ty = "Install" THEN 0 ELSE 1)
    /\ byte_call.fn = "from_u8" =>
           /\ byte_call.byte = 0 => byte_call.ty = "Install"
           /\ byte_call.byte = 1 => byte_call.ty = "Uninstall"
           /\ byte_call.byte \notin {0, 1} => byte_call.ty = "panic"

\* The largest byte was decoded.
C15_Witness ==
    /\ byte_call.fn = "from_u8"
    /\ byte_call.byte = MaxU8
    /\ Len(codes) = 1

\* Uninstall went through its byte and back.
C15_WitnessRoundTrip ==
    /\ byte_call.fn = "round_trip"
    /\ byte_call.ty = "Uninstall"
    /\ byte_call.byte = 1

====
